---- MODULE Spec2Model ----
(***************************************************************************)
(* The news-digest program of src/main.py as a state machine.              *)
(*                                                                         *)
(* One run of the __main__ block is modelled: the secret check, the feed   *)
(* aggregation get_balanced_articles (one step per source and per feed     *)
(* entry), the per-article loop (embedded abstract, or the Playwright      *)
(* render get_content_with_playwright statement by statement followed by   *)
(* summarize_with_gemini_direct), and the single delivery send_to_feishu.  *)
(*                                                                         *)
(* Times are minutes relative to the aggregation start (datetime.now(utc)  *)
(* is 0, the past is negative).  A text is a record [src, len]: the first  *)
(* len characters of the document named src, so that slicing is a change   *)
(* of len.  Every call that leaves the process is appended to trace.       *)
(***************************************************************************)
EXTENDS Integers, Sequences, FiniteSets, TLC

\* ------------------------------------------------------------------ bounds
MaxFeedLen == 2
MaxLimit == 2

\* --------------------------------------------------------- program constants
\* content[:3000], line 80
MaxChars == 3000
\* timedelta(hours=24), line 36
WindowHours == 24

\* RSS_FEEDS (lines 14-23), two of its rows, in dict order
RSS_FEEDS == <<"TechCrunch AI (EN)", "ArXiv CS.AI (Paper)">>

\* 'ArXiv' in article['source'] (line 141): the rows whose name contains it
ContainsArXiv(source) == source \in {"ArXiv CS.AI (Paper)"}

\* --------------------------------------------------------------- the inputs
Links == {"u1", "u2"}
Absent == "<absent>"
\* the zone of the machine, minutes east of UTC (what time.mktime goes by)
LocalUtcOffsets == {-60, 0, 60}

\* entry.summary: raw is the length of the field as delivered, text the
\* length of BeautifulSoup(...).get_text().strip() of it
NoSummary == [raw |-> 0, text |-> 0]
MarkupOnly == [raw |-> 7, text |-> 0]
ShortAbstract == [raw |-> 70, text |-> 60]
LongAbstract == [raw |-> MaxChars + 9, text |-> MaxChars + 1]

\* published_parsed is <<>> when the entry has no parseable date, else <<t>>
\* with t the true publication time in UTC
NewsEntries ==
    [published_parsed : {<<>>, <<1 - WindowHours * 60>>, <<0 - WindowHours * 60>>,
                        <<0 - WindowHours * 60 - 1>>},
     link : Links \cup {Absent},
     title : {"title", Absent},
     summary : {ShortAbstract}]

PaperEntries ==
    [published_parsed : {<<1 - WindowHours * 60>>},
     link : Links,
     title : {"title"},
     summary : {NoSummary, MarkupOnly, ShortAbstract, LongAbstract}]

EntriesOf(source) == IF ContainsArXiv(source) THEN PaperEntries ELSE NewsEntries

SeqsUpTo(S, n) == UNION {[1..k -> S] : k \in 0..n}

FeedsOf(source) == SeqsUpTo(EntriesOf(source), MaxFeedLen)

\* lengths of the text the rendered page yields (line 74)
PageTextLens == {0, MaxChars, MaxChars + 1}

\* what the summarisation service does with one request
GeminiOutcomes == {"ok", "request_exception", "key_error", "other_error"}

\* -------------------------------------------------------------------- state
VARIABLES
    FEISHU_WEBHOOK_URL,  \* TRUE iff the variable is set and non-empty
    GEMINI_API_KEY,      \* TRUE iff the variable is set and non-empty
    utcoffset,           \* local zone of the machine, minutes east of UTC
    limit_per_feed,      \* argument of get_balanced_articles
    pc,                  \* position of the program
    srcIdx,              \* position of the for loop over feed_urls.items()
    feed,                \* feed.entries of the source being processed
    entIdx,              \* position of the for loop over feed.entries
    count,               \* accepted entries of the current source
    all_articles,
    unique_links,
    errors,              \* sources for which line 53 printed an error
    articles,            \* result of get_balanced_articles in __main__
    i,                   \* position of the for loop over articles
    playwright,          \* TRUE while the sync_playwright() context is entered
    browser,             \* "none", "open", "closed" (line 75), "killed" (context exit)
    pw_content,          \* content inside get_content_with_playwright
    content,             \* content in __main__ (line 146)
    response,            \* outcome of the last summarisation request
    summary,
    summaries,
    delivered,           \* the digests handed to send_to_feishu
    trace                \* the calls that left the process, in order

vars == <<FEISHU_WEBHOOK_URL, GEMINI_API_KEY, utcoffset, limit_per_feed, pc,
          srcIdx, feed, entIdx, count, all_articles, unique_links, errors,
          articles, i, playwright, browser, pw_content, content, response,
          summary, summaries, delivered, trace>>

envVars == <<FEISHU_WEBHOOK_URL, GEMINI_API_KEY, utcoffset, limit_per_feed>>
aggVars == <<srcIdx, feed, entIdx, count, all_articles, unique_links, errors>>
pwVars == <<playwright, browser, pw_content>>
loopVars == <<articles, i, content, response, summary, summaries, delivered>>

None == [src |-> "None", len |-> 0]
NoSummaryYet == [kind |-> "", src |-> "", len |-> 0]

Call(op, target, len) == [op |-> op, target |-> target, len |-> len]

Min(a, b) == IF a < b THEN a ELSE b

\* ------------------------------------------------------------- construction
Init ==
    /\ FEISHU_WEBHOOK_URL \in BOOLEAN
    /\ GEMINI_API_KEY \in BOOLEAN
    /\ utcoffset \in LocalUtcOffsets
    /\ limit_per_feed \in 1..MaxLimit
    /\ pc = "main"
    /\ srcIdx = 0
    /\ feed = <<>>
    /\ entIdx = 0
    /\ count = 0
    /\ all_articles = <<>>
    /\ unique_links = {}
    /\ errors = {}
    /\ articles = <<>>
    /\ i = 0
    /\ playwright = FALSE
    /\ browser = "none"
    /\ pw_content = None
    /\ content = None
    /\ response = "none"
    /\ summary = NoSummaryYet
    /\ summaries = <<>>
    /\ delivered = <<>>
    /\ trace = <<>>

\* ------------------------------------------------------- __main__, 128-132
\* line 129 with `and` in place of `or`
BothSecretsMissing == ~FEISHU_WEBHOOK_URL /\ ~GEMINI_API_KEY

\* the condition of line 129
SecretsMissing == ~FEISHU_WEBHOOK_URL \/ ~GEMINI_API_KEY

\* lines 129-131
ExitMissingSecret ==
    /\ pc = "main"
    /\ SecretsMissing
    /\ pc' = "exit_missing_secret"
    /\ UNCHANGED <<envVars, aggVars, pwVars, loopVars, trace>>

\* line 132 and lines 32-36: the call of get_balanced_articles
CallAggregator ==
    /\ pc = "main"
    /\ ~SecretsMissing
    /\ pc' = "agg_source"
    /\ srcIdx' = 1
    /\ all_articles' = <<>>
    /\ unique_links' = {}
    /\ UNCHANGED <<envVars, feed, entIdx, count, errors, pwVars, loopVars, trace>>

\* --------------------------------------- get_balanced_articles, lines 31-55
\* line 36, with datetime.now(utc) = 0
twenty_four_hours_ago == 0 - WindowHours * 60

\* line 45
HasDate(entry) == Len(entry.published_parsed) > 0

\* time.mktime (line 46) reads the UTC fields of published_parsed as local
\* wall-clock time, so the instant it returns is the true one moved back by
\* the zone's offset (forward, west of UTC)
mktime(t) == t - utcoffset

\* line 46
published_time(entry) == mktime(entry.published_parsed[1])

\* line 47 up to its last operand: the entry is dated and inside the window
\* as the code computes it
Recent(entry) ==
    HasDate(entry) /\ published_time(entry) > twenty_four_hours_ago

\* line 47 without its membership test
AcceptsAnyLink(entry, seen) == Recent(entry) /\ entry.link # Absent

\* the condition of line 47, for an entry on which it can be evaluated
Accepts(entry, seen) ==
    Recent(entry) /\ entry.link # Absent /\ entry.link \notin seen

\* entry.link (line 47, evaluated once the first two operands are true) or
\* entry.title (line 48, evaluated once the condition is true) of an entry
\* that lacks the attribute raises AttributeError
Raises(entry, seen) ==
    \/ Recent(entry) /\ entry.link = Absent
    \/ Accepts(entry, seen) /\ entry.title = Absent

\* line 48
article_data(entry, name) ==
    [title |-> entry.title, link |-> entry.link, source |-> name,
     summary |-> entry.summary]

InSourceLoop == pc = "agg_source" /\ srcIdx <= Len(RSS_FEEDS)
InEntryLoop == pc = "agg_entry" /\ entIdx <= Len(feed) /\ count < limit_per_feed

\* lines 37-41: feedparser.parse returns a feed
ParseFeed ==
    /\ InSourceLoop
    /\ \E f \in FeedsOf(RSS_FEEDS[srcIdx]) : feed' = f
    /\ entIdx' = 1
    /\ count' = 0
    /\ pc' = "agg_entry"
    /\ trace' = Append(trace, Call("feed_get", RSS_FEEDS[srcIdx], 0))
    /\ UNCHANGED <<envVars, srcIdx, all_articles, unique_links, errors,
                   pwVars, loopVars>>

\* lines 39, 52-53: feedparser.parse raises; no feed is obtained (the old
\* binding of feed is not read again before line 39 assigns the next one)
ParseFeedRaises ==
    /\ InSourceLoop
    /\ feed' = <<>>
    /\ errors' = errors \cup {RSS_FEEDS[srcIdx]}
    /\ srcIdx' = srcIdx + 1
    /\ trace' = Append(trace, Call("feed_get", RSS_FEEDS[srcIdx], 0))
    /\ UNCHANGED <<envVars, pc, entIdx, count, all_articles, unique_links,
                   pwVars, loopVars>>

\* lines 42-43: the entries are exhausted, or the cap is reached (break).
\* feed, the loop position and count are dead until lines 39-41 assign them
\* for the next source, so they are reset here
EntryLoopEnd ==
    /\ pc = "agg_entry"
    /\ ~InEntryLoop
    /\ srcIdx' = srcIdx + 1
    /\ feed' = <<>>
    /\ entIdx' = 0
    /\ count' = 0
    /\ pc' = "agg_source"
    /\ UNCHANGED <<envVars, all_articles, unique_links, errors, pwVars,
                   loopVars, trace>>

\* lines 44-51, condition of line 47 true
EntryAccept ==
    /\ InEntryLoop
    /\ Accepts(feed[entIdx], unique_links)
    /\ ~Raises(feed[entIdx], unique_links)
    /\ all_articles' = Append(all_articles, article_data(feed[entIdx], RSS_FEEDS[srcIdx]))
    /\ unique_links' = unique_links \cup {feed[entIdx].link}
    /\ count' = count + 1
    /\ entIdx' = entIdx + 1
    /\ UNCHANGED <<envVars, pc, srcIdx, feed, errors, pwVars, loopVars, trace>>

\* lines 44-47, condition of line 47 false
EntrySkip ==
    /\ InEntryLoop
    /\ ~Accepts(feed[entIdx], unique_links)
    /\ ~Raises(feed[entIdx], unique_links)
    /\ entIdx' = entIdx + 1
    /\ UNCHANGED <<envVars, pc, srcIdx, feed, count, all_articles, unique_links,
                   errors, pwVars, loopVars, trace>>

\* lines 47-48, 52-53: reading the entry raises; the handler of line 52 ends
\* this source, and what was appended before stays in all_articles
EntryRaises ==
    /\ InEntryLoop
    /\ Raises(feed[entIdx], unique_links)
    /\ errors' = errors \cup {RSS_FEEDS[srcIdx]}
    /\ srcIdx' = srcIdx + 1
    /\ feed' = <<>>
    /\ entIdx' = 0
    /\ count' = 0
    /\ pc' = "agg_source"
    /\ UNCHANGED <<envVars, all_articles, unique_links, pwVars, loopVars, trace>>

\* lines 54-55 and 132: articles = all_articles; unique_links ends with the
\* call
AggReturn ==
    /\ pc = "agg_source"
    /\ srcIdx > Len(RSS_FEEDS)
    /\ articles' = all_articles
    /\ unique_links' = {}
    /\ pc' = "main_articles"
    /\ UNCHANGED <<envVars, srcIdx, feed, entIdx, count, all_articles, errors,
                   pwVars, i, content, response, summary, summaries, delivered,
                   trace>>

\* ------------------------------------------------------ __main__, 133-150
\* lines 133-135
ExitNoArticles ==
    /\ pc = "main_articles"
    /\ articles = <<>>
    /\ pc' = "exit_no_articles"
    /\ UNCHANGED <<envVars, aggVars, pwVars, loopVars, trace>>

\* lines 136-138
BeginArticles ==
    /\ pc = "main_articles"
    /\ articles # <<>>
    /\ summaries' = <<>>
    /\ i' = 1
    /\ pc' = "article"
    /\ UNCHANGED <<envVars, aggVars, pwVars, articles, content, response,
                   summary, delivered, trace>>

InArticleLoop == pc = "article" /\ i <= Len(articles)

\* line 141 without its test of article['summary']
UsesAbstractWhateverSummary(article) == ContainsArXiv(article.source)

\* the condition of line 141
UsesAbstract(article) ==
    ContainsArXiv(article.source) /\ article.summary.raw > 0

\* lines 143-144: markup stripped, ends stripped, newlines made spaces
abstract_text(article) ==
    [kind |-> "abstract", src |-> article.link, len |-> article.summary.text]

\* lines 141-144
UseEmbeddedAbstract ==
    /\ InArticleLoop
    /\ UsesAbstract(articles[i])
    /\ summary' = abstract_text(articles[i])
    /\ pc' = "append"
    /\ UNCHANGED <<envVars, aggVars, pwVars, articles, i, content, response,
                   summaries, delivered, trace>>

\* lines 145-146 and 58-59: the call of get_content_with_playwright
CallPlaywright ==
    /\ InArticleLoop
    /\ ~UsesAbstract(articles[i])
    /\ summary' = NoSummaryYet
    /\ pw_content' = None
    /\ pc' = "pw_enter"
    /\ UNCHANGED <<envVars, aggVars, playwright, browser, articles, i, content,
                   response, summaries, delivered, trace>>

\* --------------------------------- get_content_with_playwright, lines 57-80
PwSteps == {"pw_enter", "pw_launch", "pw_new_page", "pw_goto", "pw_wait",
            "pw_snapshot", "pw_close", "pw_exit"}

\* line 61: with sync_playwright() as p
PwEnter ==
    /\ pc = "pw_enter"
    /\ playwright' = TRUE
    /\ browser' = "none"
    /\ pc' = "pw_launch"
    /\ UNCHANGED <<envVars, aggVars, pw_content, loopVars, trace>>

\* line 62 preceded by a plain GET of the link
launch_calls_after_get(link) ==
    <<Call("http_get", link, 0), Call("browser_launch", link, 0)>>

\* what line 62 does outside the process
launch_calls(link) == <<Call("browser_launch", link, 0)>>

\* line 62: browser = p.chromium.launch(headless=True)
PwLaunch ==
    /\ pc = "pw_launch"
    /\ browser' = "open"
    /\ trace' = trace \o launch_calls(articles[i].link)
    /\ pc' = "pw_new_page"
    /\ UNCHANGED <<envVars, aggVars, playwright, pw_content, loopVars>>

\* lines 63-64: new_page and set_extra_http_headers
PwNewPage ==
    /\ pc = "pw_new_page"
    /\ pc' = "pw_goto"
    /\ UNCHANGED <<envVars, aggVars, pwVars, loopVars, trace>>

\* line 65: page.goto(url, ...)
PwGoto ==
    /\ pc = "pw_goto"
    /\ trace' = Append(trace, Call("page_goto", articles[i].link, 0))
    /\ pc' = "pw_wait"
    /\ UNCHANGED <<envVars, aggVars, pwVars, loopVars>>

\* line 66: page.wait_for_timeout(3000)
PwWait ==
    /\ pc = "pw_wait"
    /\ pc' = "pw_snapshot"
    /\ UNCHANGED <<envVars, aggVars, pwVars, loopVars, trace>>

\* lines 67-74: page.content(), the parse and the join of the paragraphs
PwSnapshot ==
    /\ pc = "pw_snapshot"
    /\ \E n \in PageTextLens : pw_content' = [src |-> articles[i].link, len |-> n]
    /\ pc' = "pw_close"
    /\ UNCHANGED <<envVars, aggVars, playwright, browser, loopVars, trace>>

\* line 75: browser.close()
PwClose ==
    /\ pc = "pw_close"
    /\ browser' = "closed"
    /\ pc' = "pw_exit"
    /\ UNCHANGED <<envVars, aggVars, playwright, pw_content, loopVars, trace>>

\* an exit of the with block that leaves the browser running
context_exit_leaving_browser(b) == b

\* the exit of the with block of line 61: the Playwright driver is stopped,
\* and a browser it still runs goes down with it
context_exit(b) == IF b = "open" THEN "killed" ELSE b

\* lines 76-77 and the normal exit of the with block
PwExit ==
    /\ pc = "pw_exit"
    /\ playwright' = FALSE
    /\ browser' = context_exit(browser)
    /\ pc' = "pw_return"
    /\ UNCHANGED <<envVars, aggVars, pw_content, loopVars, trace>>

\* lines 78-79: a statement of lines 61-75 raises; the with block is left
\* through its exit when it had been entered, then the handler runs
PwRaises ==
    /\ pc \in PwSteps \ {"pw_exit"}
    /\ playwright' = FALSE
    /\ browser' = IF playwright THEN context_exit(browser) ELSE browser
    /\ pc' = "pw_return"
    /\ UNCHANGED <<envVars, aggVars, pw_content, loopVars, trace>>

\* line 80 without the slice
unsliced_content(c) == IF c.len > 0 THEN c ELSE None

\* content[:3000] if content else None, line 80
slice_content(c) == IF c.len > 0 THEN [c EXCEPT !.len = Min(c.len, MaxChars)] ELSE None

\* line 80 and the assignment of line 146
PwReturn ==
    /\ pc = "pw_return"
    /\ content' = slice_content(pw_content)
    /\ response' = "none"
    /\ pc' = "summarize"
    /\ UNCHANGED <<envVars, aggVars, pwVars, articles, i, summary, summaries,
                   delivered, trace>>

\* -------------------------------- summarize_with_gemini_direct, lines 82-113
\* line 87
SKIPPED == [kind |-> "skipped", src |-> "", len |-> 0]
\* lines 107, 110, 113
FAILED == [kind |-> "failed", src |-> "", len |-> 0]

\* lines 86-87
SummarizeSkipped ==
    /\ pc = "summarize"
    /\ content.len = 0
    /\ summary' = SKIPPED
    /\ pc' = "append"
    /\ UNCHANGED <<envVars, aggVars, pwVars, articles, i, content, response,
                   summaries, delivered, trace>>

\* lines 98-102: the request succeeds and the answer has the expected shape
SummarizeOk ==
    /\ pc = "summarize"
    /\ content.len > 0
    /\ trace' = Append(trace, Call("gemini_post", content.src, content.len))
    /\ response' = "ok"
    /\ summary' = [kind |-> "ai", src |-> content.src, len |-> content.len]
    /\ pc' = "append"
    /\ UNCHANGED <<envVars, aggVars, pwVars, articles, i, content, summaries,
                   delivered>>

\* lines 98-113: the request or the reading of its answer raises
SummarizeFails ==
    /\ pc = "summarize"
    /\ content.len > 0
    /\ trace' = Append(trace, Call("gemini_post", content.src, content.len))
    /\ \E r \in GeminiOutcomes \ {"ok"} : response' = r
    /\ summary' = FAILED
    /\ pc' = "append"
    /\ UNCHANGED <<envVars, aggVars, pwVars, articles, i, content, summaries,
                   delivered>>

\* ------------------------------------------------------ __main__, 148-156
\* line 148
formatted_item(article, s) ==
    [title |-> article.title, summary |-> s, source |-> article.source,
     link |-> article.link]

\* lines 148-150
AppendItem ==
    /\ pc = "append"
    /\ summaries' = Append(summaries, formatted_item(articles[i], summary))
    /\ i' = i + 1
    /\ pc' = "article"
    /\ UNCHANGED <<envVars, aggVars, pwVars, articles, content, response,
                   summary, delivered, trace>>

\* lines 151-156 and send_to_feishu (lines 115-125): one post of the joined
\* items; its answer is only printed
Finish ==
    /\ pc = "article"
    /\ i > Len(articles)
    /\ IF summaries # <<>>
       THEN /\ delivered' = Append(delivered, summaries)
            /\ trace' = Append(trace, Call("feishu_post", "webhook", Len(summaries)))
       ELSE UNCHANGED <<delivered, trace>>
    /\ pc' = "done"
    /\ UNCHANGED <<envVars, aggVars, pwVars, articles, i, content, response,
                   summary, summaries>>

\* ------------------------------------------------------------ specification
Next ==
    \/ ExitMissingSecret
    \/ CallAggregator
    \/ ParseFeed
    \/ ParseFeedRaises
    \/ EntryLoopEnd
    \/ EntryAccept
    \/ EntrySkip
    \/ EntryRaises
    \/ AggReturn
    \/ ExitNoArticles
    \/ BeginArticles
    \/ UseEmbeddedAbstract
    \/ CallPlaywright
    \/ PwEnter
    \/ PwLaunch
    \/ PwNewPage
    \/ PwGoto
    \/ PwWait
    \/ PwSnapshot
    \/ PwClose
    \/ PwExit
    \/ PwRaises
    \/ PwReturn
    \/ SummarizeSkipped
    \/ SummarizeOk
    \/ SummarizeFails
    \/ AppendItem
    \/ Finish

Spec == Init /\ [][Next]_vars

\* ================================================================== claims
TraceIdx == 1..Len(trace)
Ops(kinds) == {t \in TraceIdx : trace[t].op \in kinds}
ArticlesOf(name) == SelectSeq(all_articles, LAMBDA a : a.source = name)
LinksIn(as) == {as[k].link : k \in 1..Len(as)}
LinkSeq(as) == [k \in 1..Len(as) |-> as[k].link]
SourceIndex(name) == CHOOSE k \in 1..Len(RSS_FEEDS) : RSS_FEEDS[k] = name

\* the publication time of the entry itself, in UTC, is inside the window
TrulyRecent(entry) ==
    HasDate(entry) /\ entry.published_parsed[1] > twenty_four_hours_ago

\* C1: at every moment of a run, and so in the list get_balanced_articles
\* returns, no two articles have the same link, whether the entries that
\* share a link come from one feed or from two sources.
C1_UniqueLinks ==
    /\ \A j, k \in 1..Len(all_articles) :
          j # k => all_articles[j].link # all_articles[k].link
    /\ \A j, k \in 1..Len(articles) :
          j # k => articles[j].link # articles[k].link

\* an entry of the second source was refused because the first source had
\* already supplied its link
C1_Witness ==
    /\ pc = "agg_entry"
    /\ srcIdx = 2
    /\ entIdx > 1
    /\ utcoffset = 0
    /\ feed[entIdx - 1].link \in LinksIn(ArticlesOf(RSS_FEEDS[1]))
    /\ feed[entIdx - 1].link \notin LinksIn(ArticlesOf(RSS_FEEDS[2]))

\* C2: an entry is accepted only if it is dated, published strictly after
\* the start of the aggregation minus 24 hours, and its link is new: every
\* article of the source being read comes from such an entry, and every
\* entry already read that is dated, inside the window and complete (it has
\* a link and a title) has its link among the accepted ones.
C2_WindowAndDedup ==
    pc = "agg_entry" =>
        /\ \A a \in {ArticlesOf(RSS_FEEDS[srcIdx])[k] :
                        k \in 1..Len(ArticlesOf(RSS_FEEDS[srcIdx]))} :
              \E j \in 1..(entIdx - 1) :
                  feed[j].link = a.link /\ TrulyRecent(feed[j])
        /\ \A j \in 1..(entIdx - 1) :
              TrulyRecent(feed[j]) /\ feed[j].link # Absent /\ feed[j].title # Absent
                  => feed[j].link \in unique_links

RECURSIVE FirstQualifying(_, _, _, _)
\* the links of the first n entries of f, from position k on, that are dated,
\* inside the window and not yet in seen
FirstQualifying(f, k, seen, n) ==
    IF k > Len(f) \/ n = 0 THEN <<>>
    ELSE IF TrulyRecent(f[k]) /\ f[k].link \notin seen
         THEN <<f[k].link>> \o FirstQualifying(f, k + 1, seen \cup {f[k].link}, n - 1)
         ELSE FirstQualifying(f, k + 1, seen, n)

\* C3: when the entries of a source have been read without an error, its
\* articles are the first min(limit_per_feed, q) qualifying entries of its
\* feed in feed order (qualifying: dated, inside the window, link not
\* accepted before), and the list holds the articles of one source before
\* those of the next.
C3_FirstQualifyingPerSource ==
    /\ pc = "agg_entry" /\ ~InEntryLoop =>
          LET name == RSS_FEEDS[srcIdx]
              earlier == {all_articles[k].link : k \in
                             {m \in 1..Len(all_articles) : all_articles[m].source # name}}
          IN  LinkSeq(ArticlesOf(name)) = FirstQualifying(feed, 1, earlier, limit_per_feed)
    /\ \A j, k \in 1..Len(all_articles) :
          j < k => SourceIndex(all_articles[j].source) <= SourceIndex(all_articles[k].source)

\* C4: a source whose processing raised contributes no article (stated for a
\* machine whose zone is UTC, where the window test is exact), and every
\* source is still asked for its feed before get_balanced_articles returns.
C4_FailedSourceContributesNothing ==
    /\ utcoffset = 0 => \A name \in errors : Len(ArticlesOf(name)) = 0
    /\ pc = "main_articles" =>
          \A k \in 1..Len(RSS_FEEDS) :
              \E t \in Ops({"feed_get"}) : trace[t].target = RSS_FEEDS[k]

\* C5: for an ArXiv article with a non-empty embedded summary no browser is
\* launched and no page of its link is fetched; an ArXiv article with an
\* empty embedded summary goes through get_content_with_playwright and
\* summarize_with_gemini_direct like an article of any other source.
C5_AbstractNeverFetched ==
    \A k \in 1..Len(articles) :
        LET a == articles[k] IN
        /\ ContainsArXiv(a.source) /\ a.summary.raw > 0 =>
              \A t \in Ops({"browser_launch", "page_goto", "http_get"}) :
                  trace[t].target # a.link
        /\ ContainsArXiv(a.source) /\ a.summary.raw = 0 =>
              /\ k <= Len(summaries) =>
                    summaries[k].summary.kind \in {"skipped", "failed", "ai"}
              /\ k = i /\ pc = "append" => summary.kind \in {"skipped", "failed", "ai"}

\* the run is over; one ArXiv article was served from its summary and for
\* another, with an empty summary, the browser was launched
C5_Witness ==
    /\ pc = "done"
    /\ \E k, m \in 1..Len(articles) :
          /\ ContainsArXiv(articles[k].source) /\ articles[k].summary.raw > 0
          /\ summaries[k].summary.kind = "abstract"
          /\ ContainsArXiv(articles[m].source) /\ articles[m].summary.raw = 0
          /\ \E t \in Ops({"browser_launch"}) : trace[t].target = articles[m].link

\* the text get_content_with_playwright returns is the page text cut to
\* MaxChars: unchanged up to MaxChars, exactly MaxChars long beyond
RenderedTextTruncated ==
    /\ pc = "summarize" =>
          /\ pw_content.len > 0 /\ pw_content.len <= MaxChars => content = pw_content
          /\ pw_content.len > MaxChars =>
                content.len = MaxChars /\ content.src = pw_content.src
    /\ \A t \in Ops({"gemini_post"}) : trace[t].len <= MaxChars

\* C6 (as stated): also the text of the embedded-abstract strategy is cut
\* to MaxChars before it is used.
C6_EveryStrategyTruncated ==
    /\ RenderedTextTruncated
    /\ pc = "append" /\ UsesAbstract(articles[i]) =>
          /\ articles[i].summary.text <= MaxChars =>
                summary.len = articles[i].summary.text
          /\ articles[i].summary.text > MaxChars => summary.len = MaxChars

\* C6 (amended): the text of the rendered fetch is cut to MaxChars, unchanged
\* up to MaxChars and exactly MaxChars long beyond, and no request to the
\* summariser carries more; the text of the embedded abstract is used at its
\* full length.
C6_RenderedTextTruncated ==
    /\ RenderedTextTruncated
    /\ pc = "append" /\ UsesAbstract(articles[i]) =>
          summary.len = articles[i].summary.text

\* an abstract longer than MaxChars is about to enter the digest, after a
\* page text longer than MaxChars was cut to MaxChars for an earlier article
C6_Witness ==
    /\ pc = "append"
    /\ UsesAbstract(articles[i])
    /\ summary.len > MaxChars
    /\ pw_content.len > MaxChars
    /\ content.len = MaxChars
    /\ \E t \in Ops({"gemini_post"}) : trace[t].len = MaxChars

C8_EveryArticleInDigest ==
    /\ pc = "done" /\ Len(articles) >= 1 =>
          /\ Len(delivered) = 1
          /\ LinkSeq(delivered[1]) = LinkSeq(articles)
    /\ pc = "append" =>
          LET a == articles[i]
              noText == IF UsesAbstract(a) THEN a.summary.text = 0 ELSE content.len = 0
          IN  /\ noText =>
                    /\ summary = SKIPPED
                    /\ \A t \in Ops({"gemini_post"}) : trace[t].target # a.link
              /\ ~UsesAbstract(a) /\ response \notin {"none", "ok"} => summary = FAILED

\* C9: with a secret missing nothing leaves the process; with no article
\* aggregated only the feeds were asked; the delivery call is made at most
\* once, as the last call of the run, after every article has its item.
C9_EarlyExitsAndSingleDelivery ==
    /\ (~FEISHU_WEBHOOK_URL \/ ~GEMINI_API_KEY) => trace = <<>> /\ delivered = <<>>
    /\ pc \in {"main_articles", "exit_no_articles", "done"} /\ articles = <<>> =>
          /\ Ops({"feed_get"}) = TraceIdx
          /\ delivered = <<>>
          /\ pc # "done"
    /\ Cardinality(Ops({"feishu_post"})) <= 1
    /\ Len(delivered) <= 1
    /\ \A t \in Ops({"feishu_post"}) :
          /\ t = Len(trace)
          /\ pc = "done"
          /\ Len(summaries) = Len(articles)
          /\ Len(delivered) = 1

\* the run is over: two articles were processed and the one delivery call
\* came last
C9_Witness ==
    /\ pc = "done"
    /\ Len(articles) = 2
    /\ trace[Len(trace)].op = "feishu_post"
    /\ \E t \in Ops({"gemini_post"}) : TRUE

\* C10: outside get_content_with_playwright no browser is running and the
\* Playwright context is not entered.
C10_NoBrowserLeftOpen ==
    pc \notin PwSteps => browser # "open" /\ ~playwright

\* get_content_with_playwright is about to return after a statement raised
\* while the browser was running
C10_Witness ==
    /\ pc = "pw_return"
    /\ browser = "killed"
    /\ pw_content = None

====
